---- MODULE Spec2Model ----
(***************************************************************************)
(* The Fibonacci-variant circuit of src/main.rs: FiboChip (configure,      *)
(* load_first_row, load_row, expose_public), FiboCircuit (without_         *)
(* witnesses, synthesize), the reference oracle get_fibovar_seq and the    *)
(* driver main, which checks the synthesized circuit against a public      *)
(* input.                                                                  *)
(*                                                                         *)
(* Numbers are kept at their real width.  TLC's integers are 32 bits wide, *)
(* so a number is a little-endian sequence of bytes without trailing zero  *)
(* bytes (<<>> is 0): a u64 is what fits 8 bytes, and a field element is a *)
(* number below FieldModulus, the modulus of pasta::Fp.                    *)
(***************************************************************************)
EXTENDS Integers, Sequences, FiniteSets, TLC

\* ------------------------------------------------------------------------
\* Arithmetic on byte sequences
\* ------------------------------------------------------------------------

Base == 256

Last(x) == x[Len(x)]
Front(x) == SubSeq(x, 1, Len(x) - 1)

RECURSIVE Norm(_)
Norm(x) ==
    IF x = <<>> THEN <<>>
    ELSE IF Last(x) = 0 THEN Norm(Front(x))
    ELSE x

RECURSIVE FromInt(_)
FromInt(k) == IF k = 0 THEN <<>> ELSE <<k % Base>> \o FromInt(k \div Base)

\* x + y + carry; each digit is computed before the next one is asked for
RECURSIVE AddCarry(_, _, _)
AddCarry(x, y, carry) ==
    IF x = <<>> /\ y = <<>> THEN (IF carry = 0 THEN <<>> ELSE <<carry>>)
    ELSE LET s  == (IF x = <<>> THEN 0 ELSE Head(x))
                   + (IF y = <<>> THEN 0 ELSE Head(y)) + carry
             xt == IF x = <<>> THEN <<>> ELSE Tail(x)
             yt == IF y = <<>> THEN <<>> ELSE Tail(y)
         IN  IF s < Base
             THEN <<s>> \o AddCarry(xt, yt, 0)
             ELSE <<s - Base>> \o AddCarry(xt, yt, 1)

NAdd(x, y) == AddCarry(x, y, 0)

\* x < y, for normalised x and y: the highest byte that differs decides
RECURSIVE LessFrom(_, _, _)
LessFrom(x, y, i) ==
    IF i = 0 THEN FALSE
    ELSE IF x[i] # y[i] THEN x[i] < y[i]
    ELSE LessFrom(x, y, i - 1)

NLess(x, y) ==
    IF Len(x) # Len(y) THEN Len(x) < Len(y) ELSE LessFrom(x, y, Len(x))

\* x - y - borrow, for x >= y + borrow; the result is not normalised
RECURSIVE SubBorrow(_, _, _)
SubBorrow(x, y, borrow) ==
    IF x = <<>> THEN <<>>
    ELSE LET s  == Head(x) - (IF y = <<>> THEN 0 ELSE Head(y)) - borrow
             yt == IF y = <<>> THEN <<>> ELSE Tail(y)
         IN  IF s < 0
             THEN <<s + Base>> \o SubBorrow(Tail(x), yt, 1)
             ELSE <<s>> \o SubBorrow(Tail(x), yt, 0)

NSub(x, y) == Norm(SubBorrow(x, y, 0))

\* The carries of the column sums col (col[i] is the sum of the byte
\* products of weight Base^(i-1)): the digits of the number they add up to
RECURSIVE Carry(_, _)
Carry(col, carry) ==
    IF col = <<>> THEN FromInt(carry)
    ELSE LET s == Head(col) + carry
             c == s \div Base
         IN  IF c = 0
             THEN <<s>> \o Carry(Tail(col), 0)
             ELSE <<s % Base>> \o Carry(Tail(col), c)

\* Schoolbook multiplication
Column(x, y, k) ==
    LET lo == IF k > Len(y) THEN k - Len(y) + 1 ELSE 1
        hi == IF k > Len(x) THEN Len(x) ELSE k
        Sum[i \in (lo - 1)..hi] ==
            IF i < lo THEN 0 ELSE Sum[i - 1] + x[i] * y[k + 1 - i]
    IN  Sum[hi]

NMul(x, y) ==
    IF x = <<>> \/ y = <<>> THEN <<>>
    ELSE Norm(Carry([k \in 1..(Len(x) + Len(y) - 1) |-> Column(x, y, k)], 0))

\* The modulus of pasta::Fp,
\* 0x40000000000000000000000000000000224698fc094cf91b992d30ed00000001
FieldModulus ==
    <<1, 0, 0, 0, 237, 48, 45, 153, 27, 249, 76, 9, 252, 152, 70, 34,
      0, 0, 0, 0, 0, 0, 0, 0, 0, 0, 0, 0, 0, 0, 0, 64>>

\* The multiples 0p, 1p, ..., 256p of the modulus
FieldMultiples == [q \in 0..Base |-> NMul(FieldModulus, FromInt(q))]

\* r mod p for r < 256 * p.  As p = 2^254 + t with 0 < t < 2^126, the
\* quotient of r by p is floor(r / 2^254), read off the top bytes of r, or
\* one less
ReduceStep(r) ==
    LET q == (IF Len(r) > 32 THEN 4 * r[33] ELSE 0)
             + (IF Len(r) > 31 THEN r[32] \div 64 ELSE 0)
    IN  IF NLess(r, FieldMultiples[q]) THEN NSub(r, FieldMultiples[q - 1])
        ELSE NSub(r, FieldMultiples[q])

\* x mod p by long division: the bytes of x below its top 31 are brought
\* down one at a time, and the remainder is reduced after each (and computed
\* before the next byte is brought down)
RECURSIVE BringDown(_, _)
BringDown(lo, r) ==
    IF lo = <<>> THEN r
    ELSE LET r1 == ReduceStep(Norm(<<Last(lo)>> \o r))
         IN  IF r1 = <<>> THEN BringDown(Front(lo), <<>>)
             ELSE BringDown(Front(lo), r1)

FReduce(x) ==
    IF NLess(x, FieldModulus) THEN x
    ELSE LET cut == Len(x) - (Len(FieldModulus) - 1)
         IN  BringDown(SubSeq(x, 1, cut), Norm(SubSeq(x, cut + 1, Len(x))))

\* Field addition and multiplication (the + and * of F: Field)
FAdd(x, y) == FReduce(NAdd(x, y))
FMul(x, y) == FReduce(NMul(x, y))

\* Fp::from(u64)
FpFrom(u) == FReduce(u)

\* u64 arithmetic: the width of a u64 in bytes, and the value kept on overflow
U64Bytes == 8
Fits64(x) == Len(x) <= U64Bytes
Wrap64(x) == Norm(SubSeq(x, 1, IF Len(x) < U64Bytes THEN Len(x) ELSE U64Bytes))

\* ------------------------------------------------------------------------
\* Value<F>: a known field element or the unknown placeholder
\* ------------------------------------------------------------------------

Unknown == [known |-> FALSE, v |-> <<>>]
Known(x) == [known |-> TRUE, v |-> x]

\* Value + Value and Value * Value: unknown as soon as one side is
VAdd(x, y) == IF x.known /\ y.known THEN Known(FAdd(x.v, y.v)) ELSE Unknown
VMul(x, y) == IF x.known /\ y.known THEN Known(FMul(x.v, y.v)) ELSE Unknown

\* ------------------------------------------------------------------------
\* Bounds and inputs
\* ------------------------------------------------------------------------

\* The largest sequence length num and the largest table (in usable rows)
MaxNum == 11
MaxRows == 8

U64Max == [i \in 1..U64Bytes |-> Base - 1]

\* The u64 seed triples a driver passes to the oracle and to the circuit
SeedTriples ==
    { <<FromInt(1), FromInt(2), FromInt(3)>>,
      <<FromInt(0), FromInt(1), FromInt(1)>>,
      <<FromInt(3), FromInt(3), FromInt(3)>>,
      <<U64Max, FromInt(2), FromInt(0)>>,
      <<U64Max, U64Max, U64Max>> }

\* Public inputs a driver may hand to the verifier besides the oracle's value
PublicChoices ==
    { FromInt(1), FromInt(8), FromInt(29), FromInt(30), FromInt(264),
      FromInt(9999) }

\* ------------------------------------------------------------------------
\* State
\* ------------------------------------------------------------------------

VARIABLES
    seeds,          \* main: the u64 seeds (a, b, c)
    circuit,        \* FiboCircuit { a, b, c, num }
    usable_rows,    \* the rows the table of size k leaves to the layouter
    expected,       \* main: the outcome of get_fibovar_seq
    config,         \* FiboConfig, once configure has run
    pc,             \* where the driver and synthesize stand
    regions,        \* layouter: the regions assigned so far, in row order
    copies,         \* layouter: the equality bindings between advice cells
    instance,       \* layouter: the cells bound to the instance column
    trace,          \* layouter: the operations performed on it, in order
    locals,         \* synthesize: the handles b, c, d and the loop index i
    result,         \* synthesize: its Result
    verdict,        \* MockProver::verify: the public input and the outcome
    first           \* the finished earlier synthesis of the same table

vars == <<seeds, circuit, usable_rows, expected, config, pc, regions, copies,
          instance, trace, locals, result, verdict, first>>

layouter == <<regions, copies, instance, trace>>

\* ------------------------------------------------------------------------
\* FiboChip
\* ------------------------------------------------------------------------

NoCell == [region |-> 0, col |-> "-"]
Cell(k, col) == [region |-> k, col |-> col]

NoConfig == [configured |-> FALSE, advice |-> <<>>, i |-> "-", s |-> "-",
             equality |-> {}]

\* FiboChip::configure: four advice columns, an instance column, a selector,
\* equality enabled on all five columns; the gate is Gate below
FiboConfig ==
    [configured |-> TRUE, advice |-> <<"a", "b", "c", "d">>, i |-> "i",
     s |-> "s", equality |-> {"a", "b", "c", "d", "i"}]

\* The "mul add gate" polynomial s * ((a + c) * b - d) vanishes on a row
Gate(s, a, b, c, d) == (~s) \/ FMul(FAdd(a, c), b) = d

\* A layouter operation as it is logged
Op(op, k, col, src) == [op |-> op, region |-> k, col |-> col, src |-> src]

\* assign_region places the next region: every region takes the same columns
\* of one row, so it goes to the row after the last one, if that row is usable
NextRow == Len(regions)
RowAvailable(row) == row < usable_rows

\* copy_advice and constrain_instance need equality on both columns
CanCopy(cfg, from_col, to_col) ==
    from_col \in cfg.equality /\ to_col \in cfg.equality

Value(cell) == regions[cell.region][cell.col].value

\* A first row whose selector is enabled only for a known witness
FirstRowRegionKnownOnly(row, a, b, c) ==
    [row |-> row, s |-> a.known,
     a |-> [value |-> a, how |-> "assign"],
     b |-> [value |-> b, how |-> "assign"],
     c |-> [value |-> c, how |-> "assign"],
     d |-> [value |-> VMul(VAdd(a, c), b), how |-> "assign"]]

\* load_first_row: what the closure assigns in its region
FirstRowRegion(row, a, b, c) ==
    [row |-> row, s |-> TRUE,
     a |-> [value |-> a, how |-> "assign"],
     b |-> [value |-> b, how |-> "assign"],
     c |-> [value |-> c, how |-> "assign"],
     d |-> [value |-> VMul(VAdd(a, c), b), how |-> "assign"]]

FirstRowOps(k) ==
    << Op("enable_selector", k, "s", NoCell),
       Op("assign_advice", k, "a", NoCell),
       Op("assign_advice", k, "b", NoCell),
       Op("assign_advice", k, "c", NoCell),
       Op("assign_advice", k, "d", NoCell) >>

\* A row whose d multiplies by a instead of b: a * (b + c)
RowRegionWrongFactor(row, a, b, c) ==
    [row |-> row, s |-> TRUE,
     a |-> [value |-> Value(a), how |-> "copy"],
     b |-> [value |-> Value(b), how |-> "copy"],
     c |-> [value |-> Value(c), how |-> "copy"],
     d |-> [value |-> VMul(Value(a), VAdd(Value(b), Value(c))),
            how |-> "assign"]]

\* load_row: what the closure assigns in its region, from the cells a, b, c
RowRegion(row, a, b, c) ==
    [row |-> row, s |-> TRUE,
     a |-> [value |-> Value(a), how |-> "copy"],
     b |-> [value |-> Value(b), how |-> "copy"],
     c |-> [value |-> Value(c), how |-> "copy"],
     d |-> [value |-> VMul(Value(b), VAdd(Value(a), Value(c))),
            how |-> "assign"]]

RowCopies(k, a, b, c) ==
    { <<a, Cell(k, "a")>>, <<b, Cell(k, "b")>>, <<c, Cell(k, "c")>> }

RowOps(k, a, b, c) ==
    << Op("enable_selector", k, "s", NoCell),
       Op("copy_advice", k, "a", a),
       Op("copy_advice", k, "b", b),
       Op("copy_advice", k, "c", c),
       Op("assign_advice", k, "d", NoCell) >>

\* expose_public without its constrain_instance
ExposureDropped(cell, row) == {}

\* expose_public: layouter.constrain_instance(num.0.cell(), config.i, row)
Exposure(cell, row) == {[cell |-> cell, row |-> row]}

\* ------------------------------------------------------------------------
\* get_fibovar_seq
\* ------------------------------------------------------------------------

\* A u64 operation: the value, or a panic when the build checks overflow
U64Op(x, checks) ==
    IF Fits64(x) THEN [panic |-> FALSE, v |-> x]
    ELSE [panic |-> checks, v |-> Wrap64(x)]

\* The loop "for i in 3..num" from index Len(seq) on
RECURSIVE FiboLoop(_, _, _)
FiboLoop(seq, num, checks) ==
    IF Len(seq) >= num THEN [panic |-> FALSE, seq |-> seq]
    ELSE LET i    == Len(seq)
             sum  == U64Op(NAdd(seq[i], seq[i - 2]), checks)
             prod == U64Op(NMul(sum.v, seq[i - 1]), checks)
         IN  IF sum.panic \/ prod.panic
             THEN [panic |-> TRUE, seq |-> <<>>]
             ELSE FiboLoop(Append(seq, prod.v), num, checks)

\* vec![0; num], then seq[0], seq[1], seq[2] (out of bounds when num < 3),
\* then the loop
GetFibovarSeq(a, b, c, num, checks) ==
    IF num < 3 THEN [panic |-> TRUE, seq |-> <<>>]
    ELSE FiboLoop(<<a, b, c>>, num, checks)

NotRun == [status |-> "none", seq |-> <<>>]

\* ------------------------------------------------------------------------
\* FiboCircuit
\* ------------------------------------------------------------------------

\* FiboCircuit::default(), which without_witnesses returns
DefaultCircuit == [a |-> Unknown, b |-> Unknown, c |-> Unknown, num |-> 0]

NoLocals == [b |-> NoCell, c |-> NoCell, d |-> NoCell, i |-> 0]

\* A loop that starts one turn early
LoopStartEarly == 4 - 1

\* synthesize: the loop is "for _ in 4..self.num", and the exposed term goes
\* to row 0 of the instance column
LoopStart == 4
InstanceRow == 0

\* synthesize: let (_, mut b, mut c, mut d) = the handles of the first row
FirstLocals(k) ==
    [b |-> Cell(k, "b"), c |-> Cell(k, "c"), d |-> Cell(k, "d"),
     i |-> LoopStart]

\* The rotation without its "b = c", and without its "d = new_d"
RotateKeepB(l, new_d) == [b |-> l.b, c |-> l.d, d |-> new_d, i |-> l.i + 1]
RotateKeepD(l, new_d) == [b |-> l.c, c |-> l.d, d |-> l.d, i |-> l.i + 1]

\* synthesize: b = c; c = d; d = new_d, and the loop goes on to its next turn
Rotate(l, new_d) == [b |-> l.c, c |-> l.d, d |-> new_d, i |-> l.i + 1]

\* An Err that is noted while synthesize goes on
PropagateSwallowed(err) == [pc |-> "loop", result |-> err]

\* The ? after each chip call: an Err leaves synthesize at once, as its result
Propagate(err) == [pc |-> "failed", result |-> err]

NoVerdict == [public |-> <<>>, ok |-> FALSE, run |-> FALSE]
NoFirst == [how |-> "none", circuit |-> DefaultCircuit, regions |-> <<>>,
            copies |-> {}, instance |-> {}, trace |-> <<>>, result |-> "none"]

Init ==
    /\ seeds \in SeedTriples
    /\ \E num \in 0..MaxNum :
          circuit = [a |-> Known(FpFrom(seeds[1])),
                     b |-> Known(FpFrom(seeds[2])),
                     c |-> Known(FpFrom(seeds[3])), num |-> num]
    /\ usable_rows \in 0..MaxRows
    /\ expected = NotRun
    /\ config = NoConfig
    /\ pc = "main"
    /\ regions = <<>>
    /\ copies = {}
    /\ instance = {}
    /\ trace = <<>>
    /\ locals = NoLocals
    /\ result = "none"
    /\ verdict = NoVerdict
    /\ first = NoFirst

\* main: let seq = get_fibovar_seq(a, b, c, num), in a build with or without
\* overflow checks; a panic ends the program
Oracle ==
    /\ pc = "main"
    /\ expected.status = "none"
    /\ \E checks \in BOOLEAN :
          LET r == GetFibovarSeq(seeds[1], seeds[2], seeds[3], circuit.num,
                                 checks)
          IN  /\ expected' = [status |-> IF r.panic THEN "panic" ELSE "ok",
                              seq |-> r.seq]
              /\ pc' = IF r.panic THEN "panicked" ELSE "main"
    /\ UNCHANGED <<seeds, circuit, usable_rows, config, regions, copies,
                   instance, trace, locals, result, verdict, first>>

\* Circuit::configure
Configure ==
    /\ pc = "main"
    /\ config' = FiboConfig
    /\ pc' = "synthesize"
    /\ UNCHANGED <<seeds, circuit, usable_rows, expected, regions, copies,
                   instance, trace, locals, result, verdict, first>>

\* synthesize: chip.load_first_row(self.a, self.b, self.c)?
LoadFirstRow ==
    /\ pc = "synthesize"
    /\ LET k == Len(regions) + 1
       IN  IF RowAvailable(NextRow)
           THEN /\ regions' = Append(regions,
                        FirstRowRegion(NextRow, circuit.a, circuit.b, circuit.c))
                /\ trace' = trace \o FirstRowOps(k)
                /\ locals' = FirstLocals(k)
                /\ pc' = "loop"
                /\ UNCHANGED result
           ELSE /\ result' = Propagate("NotEnoughRowsAvailable").result
                /\ pc' = Propagate("NotEnoughRowsAvailable").pc
                /\ UNCHANGED <<regions, trace, locals>>
    /\ UNCHANGED <<seeds, circuit, usable_rows, expected, config, copies,
                   instance, verdict, first>>

\* synthesize: one turn of "for _ in 4..self.num":
\* new_d = chip.load_row(&b, &c, &d)?; b = c; c = d; d = new_d
LoadRow ==
    /\ pc = "loop"
    /\ locals.i < circuit.num
    /\ LET k == Len(regions) + 1
       IN  IF /\ RowAvailable(NextRow)
              /\ CanCopy(config, locals.b.col, "a")
              /\ CanCopy(config, locals.c.col, "b")
              /\ CanCopy(config, locals.d.col, "c")
           THEN /\ regions' = Append(regions,
                        RowRegion(NextRow, locals.b, locals.c, locals.d))
                /\ copies' = copies \cup RowCopies(k, locals.b, locals.c, locals.d)
                /\ trace' = trace \o RowOps(k, locals.b, locals.c, locals.d)
                /\ locals' = Rotate(locals, Cell(k, "d"))
                /\ UNCHANGED <<pc, result>>
           ELSE LET err == IF RowAvailable(NextRow)
                           THEN "ColumnNotInPermutation"
                           ELSE "NotEnoughRowsAvailable"
                IN  /\ result' = Propagate(err).result
                    /\ pc' = Propagate(err).pc
                    /\ UNCHANGED <<regions, copies, trace, locals>>
    /\ UNCHANGED <<seeds, circuit, usable_rows, expected, config, instance,
                   verdict, first>>

\* synthesize, after the loop: chip.expose_public(d, 0)?; Ok(())
ExposePublic ==
    /\ pc = "loop"
    /\ ~(locals.i < circuit.num)
    /\ IF RowAvailable(InstanceRow) /\ CanCopy(config, locals.d.col, config.i)
       THEN /\ instance' = instance \cup Exposure(locals.d, InstanceRow)
            /\ trace' = trace \o <<Op("constrain_instance", InstanceRow,
                                      config.i, locals.d)>>
            /\ result' = "Ok"
            /\ pc' = "done"
       ELSE LET err == IF RowAvailable(InstanceRow)
                       THEN "ColumnNotInPermutation"
                       ELSE "NotEnoughRowsAvailable"
            IN  /\ result' = Propagate(err).result
                /\ pc' = Propagate(err).pc
                /\ UNCHANGED <<instance, trace>>
    /\ UNCHANGED <<seeds, circuit, usable_rows, expected, config, regions,
                   copies, locals, verdict, first>>

\* MockProver::verify against the instance column holding `public`: every
\* active gate vanishes, every bound pair of cells agrees, and every exposed
\* cell equals its instance row (rows past the given ones hold zero)
InstanceAt(public, row) == IF row < Len(public) THEN public[row + 1] ELSE <<>>

VerifyOk(public) ==
    /\ \A k \in 1..Len(regions) :
          LET r == regions[k]
          IN  Gate(r.s, r.a.value.v, r.b.value.v, r.c.value.v, r.d.value.v)
    /\ \A e \in copies : Value(e[1]) = Value(e[2])
    /\ \A e \in instance : Value(e.cell).v = InstanceAt(public, e.row)

\* main: the value the driver derives from the oracle, Fp::from(seq[num - 1])
Res == FpFrom(expected.seq[circuit.num])

\* main: prover.verify() on the circuit it has built, with public_inputs =
\* vec![res] or another value
Verify ==
    /\ pc = "done"
    /\ expected.status = "ok"
    /\ first.how = "none"
    /\ \E p \in PublicChoices \cup {Res} :
          verdict' = [public |-> <<p>>, ok |-> VerifyOk(<<p>>), run |-> TRUE]
    /\ pc' = "verified"
    /\ UNCHANGED <<seeds, circuit, usable_rows, expected, config, regions,
                   copies, instance, trace, locals, result, first>>

\* A finished synthesis is kept, and the same table is laid out once more for
\* `next`, from an empty layouter
Again(how, next) ==
    /\ pc \in {"done", "failed"}
    /\ first.how = "none"
    /\ first' = [how |-> how, circuit |-> circuit, regions |-> regions,
                 copies |-> copies, instance |-> instance, trace |-> trace,
                 result |-> result]
    /\ circuit' = next
    /\ regions' = <<>>
    /\ copies' = {}
    /\ instance' = {}
    /\ trace' = <<>>
    /\ locals' = NoLocals
    /\ result' = "none"
    /\ verdict' = NoVerdict
    /\ pc' = "synthesize"
    /\ UNCHANGED <<seeds, usable_rows, expected, config>>

\* Circuit::without_witnesses, and the synthesis of what it returns
WithoutWitnesses == Again("without_witnesses", DefaultCircuit)

\* Another instance of the same length: other seeds, or none
OtherSeeds ==
    \E t \in SeedTriples \cup {<<>>} :
        Again("other_seeds",
              IF t = <<>>
              THEN [a |-> Unknown, b |-> Unknown, c |-> Unknown,
                    num |-> circuit.num]
              ELSE [a |-> Known(FpFrom(t[1])), b |-> Known(FpFrom(t[2])),
                    c |-> Known(FpFrom(t[3])), num |-> circuit.num])

Next ==
    \/ Oracle
    \/ Configure
    \/ LoadFirstRow
    \/ LoadRow
    \/ ExposePublic
    \/ Verify
    \/ WithoutWitnesses
    \/ OtherSeeds

Spec == Init /\ [][Next]_vars

\* ------------------------------------------------------------------------
\* What the claims speak of
\* ------------------------------------------------------------------------

Witnessed == circuit.a.known /\ circuit.b.known /\ circuit.c.known

\* The recurrence over the field: seq[0] = a, seq[1] = b, seq[2] = c and
\* seq[i] = (seq[i-1] + seq[i-3]) * seq[i-2]  (seq[i] is RecurrenceTo(..)[i+1])
RECURSIVE RecurrenceTo(_, _)
RecurrenceTo(seq, n) ==
    IF Len(seq) >= n THEN seq
    ELSE LET i == Len(seq)
         IN  RecurrenceTo(Append(seq, FMul(FAdd(seq[i], seq[i - 2]), seq[i - 1])), n)

\* seq[n-1] for the seeds of the circuit
LastTerm ==
    RecurrenceTo(<<circuit.a.v, circuit.b.v, circuit.c.v>>, circuit.num)[circuit.num]

\* The cells equality-bound to x, directly or through other cells
Neighbours(S) ==
    S \cup {e[2] : e \in {f \in copies : f[1] \in S}}
      \cup {e[1] : e \in {f \in copies : f[2] \in S}}

RECURSIVE Closure(_)
Closure(S) == IF Neighbours(S) = S THEN S ELSE Closure(Neighbours(S))

EqualityBound(x, y) == y \in Closure({x})

\* A layout without its values: the rows, the selectors, how each cell was set
Shape(rs) ==
    [k \in 1..Len(rs) |->
        [row |-> rs[k].row, s |-> rs[k].s, a |-> rs[k].a.how, b |-> rs[k].b.how,
         c |-> rs[k].c.how, d |-> rs[k].d.how]]

IsPrefix(s, t) == Len(s) <= Len(t) /\ SubSeq(t, 1, Len(s)) = s

Exposures == {j \in 1..Len(trace) : trace[j].op = "constrain_instance"}

Seeds123 == <<FromInt(1), FromInt(2), FromInt(3)>>

\* ------------------------------------------------------------------------
\* C1
\* ------------------------------------------------------------------------

\* C1: for known seeds and n >= 4, the cell a successful synthesize binds to
\* instance row 0 holds seq[n-1] of the field recurrence, and verification
\* against the public input [seq[n-1]] accepts.
RecurrenceCorrect ==
    (result = "Ok" /\ Witnessed /\ circuit.num >= 4) =>
        /\ instance # {}
        /\ \A e \in instance : e.row = 0 /\ Value(e.cell) = Known(LastTerm)
        /\ (verdict.run /\ verdict.public = <<LastTerm>>) => verdict.ok

\* Seeds (1, 2, 3), n = 6: the public input [264] is accepted
RecurrenceCorrectWitness ==
    /\ verdict.run /\ verdict.ok
    /\ seeds = Seeds123 /\ circuit.num = 6
    /\ verdict.public = <<FromInt(264)>>

\* ------------------------------------------------------------------------
\* C2
\* ------------------------------------------------------------------------

\* C2: for known seeds and n >= 4, verification against a one-element public
\* input other than seq[n-1] is rejected.
Soundness ==
    (verdict.run /\ circuit.num >= 4 /\ Len(verdict.public) = 1
       /\ verdict.public[1] # LastTerm) => ~verdict.ok

\* Seeds (1, 2, 3), n = 5: the public input [29] is rejected
SoundnessWitness ==
    /\ verdict.run /\ ~verdict.ok
    /\ seeds = Seeds123 /\ circuit.num = 5
    /\ verdict.public = <<FromInt(29)>>

\* ------------------------------------------------------------------------
\* C3
\* ------------------------------------------------------------------------

\* C3: the instance without_witnesses returns for a circuit of length n >= 4
\* carries the same n with all seeds unknown, and its synthesis ends with the
\* same layout (regions, selectors, assigned columns, equality bindings,
\* public exposure) as the witnessed instance's.
ShapeStability ==
    (first.how = "without_witnesses" /\ first.circuit.num >= 4) =>
        /\ circuit.num = first.circuit.num
        /\ ~circuit.a.known /\ ~circuit.b.known /\ ~circuit.c.known
        /\ pc \in {"done", "failed"} =>
              /\ trace = first.trace
              /\ Shape(regions) = Shape(first.regions)
              /\ copies = first.copies
              /\ instance = first.instance
              /\ result = first.result

\* ------------------------------------------------------------------------
\* C4
\* ------------------------------------------------------------------------

\* C4: synthesis of a circuit with n < 4 ends in an error and never exposes a
\* public output, while n = 4 lays out the seed region alone.
MinimumLength ==
    /\ circuit.num < 4 => (result # "Ok" /\ instance = {})
    /\ (circuit.num = 4 /\ result = "Ok") => Len(regions) = 1

\* ------------------------------------------------------------------------
\* C5
\* ------------------------------------------------------------------------

\* C5: for all u64 seeds and n >= 4, get_fibovar_seq returns a vector of
\* length n that starts with the seeds and whose every element, embedded into
\* the field, is the term of the recurrence over the field and the term the
\* circuit of these seeds derives (the seeds in the first row's a, b, c, term
\* i >= 3 in the d of region i - 2); its last element is the exposed output.
OracleMatchesGate ==
    (expected.status # "none" /\ circuit.num >= 4 /\ first.how = "none") =>
        /\ expected.status = "ok"
        /\ Len(expected.seq) = circuit.num
        /\ SubSeq(expected.seq, 1, 3) = seeds
        /\ \A i \in 1..circuit.num :
              FpFrom(expected.seq[i]) =
                  RecurrenceTo(<<circuit.a.v, circuit.b.v, circuit.c.v>>,
                               circuit.num)[i]
        /\ \A k \in 1..Len(regions) :
              /\ k = 1 => /\ regions[k].a.value = Known(FpFrom(expected.seq[1]))
                          /\ regions[k].b.value = Known(FpFrom(expected.seq[2]))
                          /\ regions[k].c.value = Known(FpFrom(expected.seq[3]))
              /\ regions[k].d.value = Known(FpFrom(expected.seq[k + 3]))
        /\ \A e \in instance : Value(e.cell) = Known(Res)

\* ------------------------------------------------------------------------
\* C6
\* ------------------------------------------------------------------------

\* C6, as claimed: a length-n circuit (n >= 4) takes one region per derived
\* term plus the seed region, n - 2 rows, and synthesis fails when the layout
\* has fewer usable rows than that.
NeedsNMinus2Rows ==
    (result = "Ok" /\ circuit.num >= 4) =>
        /\ Len(regions) = circuit.num - 2
        /\ usable_rows >= circuit.num - 2

\* C6, amended: a length-n circuit (n >= 4) takes n - 3 single-row regions
\* (the seed region, which holds the first derived term, and one region per
\* later derived term); synthesis completes exactly when the layout has at
\* least n - 3 usable rows and otherwise fails for lack of rows.
NeedsNMinus3Rows ==
    (result # "none" /\ circuit.num >= 4) =>
        /\ result = "Ok" <=> usable_rows >= circuit.num - 3
        /\ result # "Ok" => result = "NotEnoughRowsAvailable"
        /\ result = "Ok" =>
              /\ Len(regions) = circuit.num - 3
              /\ \A k \in 1..Len(regions) : regions[k].row = k - 1

\* n = 7 completes in a table of exactly 4 usable rows
NeedsNMinus3RowsWitness ==
    result = "Ok" /\ circuit.num = 7 /\ usable_rows = 4 /\ Len(regions) = 4

\* ------------------------------------------------------------------------
\* C7
\* ------------------------------------------------------------------------

\* C7: in every state, the first region assigns a, b, c from the witnesses;
\* every later region k has its a, b, c equality-bound to the b, c, d of
\* region k - 1 and none of them assigned; every region has its selector on
\* and d = (a + c) * b.
SlidingWindow ==
    \A k \in 1..Len(regions) :
        LET r == regions[k]
        IN  /\ r.s
            /\ r.d.value = VMul(VAdd(r.a.value, r.c.value), r.b.value)
            /\ r.d.how = "assign"
            /\ IF k = 1
               THEN /\ r.a = [value |-> circuit.a, how |-> "assign"]
                    /\ r.b = [value |-> circuit.b, how |-> "assign"]
                    /\ r.c = [value |-> circuit.c, how |-> "assign"]
               ELSE /\ r.a.how = "copy" /\ r.b.how = "copy" /\ r.c.how = "copy"
                    /\ EqualityBound(Cell(k, "a"), Cell(k - 1, "b"))
                    /\ EqualityBound(Cell(k, "b"), Cell(k - 1, "c"))
                    /\ EqualityBound(Cell(k, "c"), Cell(k - 1, "d"))

\* A witnessed layout of five regions, the last three past the first window
SlidingWindowWitness ==
    Len(regions) = 5 /\ Witnessed /\ seeds = Seeds123 /\ first.how = "none"

\* ------------------------------------------------------------------------
\* C8
\* ------------------------------------------------------------------------

\* C8: a synthesis of the same length with other seeds, known or unknown,
\* performs the same operations in the same order as the first one did, and
\* ends with the same regions, selectors, assigned columns, equality bindings,
\* exposure and result.
DataIndependence ==
    first.how = "other_seeds" =>
        /\ IsPrefix(trace, first.trace)
        /\ pc \in {"done", "failed"} =>
              /\ trace = first.trace
              /\ Shape(regions) = Shape(first.regions)
              /\ copies = first.copies
              /\ instance = first.instance
              /\ result = first.result

\* Seeds (1, 2, 3) and then unknown seeds, n = 7, both laid out to the end
DataIndependenceWitness ==
    /\ first.how = "other_seeds" /\ pc = "done"
    /\ first.circuit.a = Known(FromInt(1)) /\ ~circuit.a.known
    /\ circuit.num = 7 /\ Len(regions) = 4

\* ------------------------------------------------------------------------
\* C9
\* ------------------------------------------------------------------------

\* C9: a successful synthesis has performed exactly one expose_public, as its
\* last operation, after the seed region and the n - 4 load_row regions; it
\* binds the d cell of the last region to instance row 0; and before that, or
\* in a failed synthesis, no cell is bound to the instance column.
SingleExposure ==
    IF result = "Ok"
    THEN /\ instance = {[cell |-> Cell(Len(regions), "d"), row |-> 0]}
         /\ Exposures = {Len(trace)}
         /\ trace[Len(trace)].src = Cell(Len(regions), "d")
         /\ trace[Len(trace)].region = 0
         /\ regions[1].a.how = "assign"
         /\ \A k \in 2..Len(regions) : regions[k].a.how = "copy"
         /\ circuit.num >= 4 => Len(regions) = circuit.num - 3
    ELSE instance = {} /\ Exposures = {}

\* n = 8: five regions, then the exposure of the fifth region's d
SingleExposureWitness ==
    result = "Ok" /\ circuit.num = 8 /\ Len(regions) = 5 /\ Cardinality(instance) = 1

\* ------------------------------------------------------------------------
\* C10
\* ------------------------------------------------------------------------

\* C10: synthesize has an error as its result exactly when it has stopped
\* failed; the failing step leaves the layouter as it was, with no cell
\* exposed; nothing is laid out after it (the failed synthesis is only set
\* aside, regions and result as they were, when the table is laid out anew);
\* and a synthesis that has not failed at its first failing step, the first
\* one for which no row is left, completes for its n.
FailFast ==
    /\ [](/\ result \notin {"none", "Ok"} <=> pc = "failed"
          /\ pc = "failed" =>
                /\ instance = {}
                /\ Len(regions) = usable_rows
          /\ result = "Ok" =>
                Len(regions) = IF circuit.num > 4 THEN circuit.num - 3 ELSE 1)
    /\ [][(pc # "failed" /\ pc' = "failed") => UNCHANGED layouter]_vars
    /\ [][pc = "failed" =>
             /\ pc' = "synthesize"
             /\ first'.regions = regions /\ first'.copies = copies
             /\ first'.instance = instance /\ first'.trace = trace
             /\ first'.result = result]_vars

\* A load_row has failed after three regions
FailFastWitness ==
    pc = "failed" /\ Len(regions) = 3 /\ circuit.num = 8

====
